---- MODULE Spec2Model ----
(***************************************************************************)
(* PhaseSequence<Phase, Time> of ct/core/switching/Switching.h, in the     *)
(* instantiation DiscreteModeSequence (Time = int): a schedule of phase    *)
(* handles with one more boundary time than phases, an append operation    *)
(* and index- and time-based queries.                                      *)
(*                                                                         *)
(* Vectors are modelled as TLA+ sequences: the C++ element v[k] is the     *)
(* TLA+ element v[k + 1].  A phase handle (std::shared_ptr<Phase>) is      *)
(* modelled by its identity, a number in Handles; 0 is the null handle.    *)
(***************************************************************************)
EXTENDS Integers, Sequences, FiniteSets, TLC

\* ------------------------------------------------------------------ bounds
\* addPhase is called at most MaxPhases times
MaxPhases == 3
\* the largest duration passed to addPhase
MaxDur == 2

\* the phase handles the caller owns: two, to tell a switch's pre_phase from its
\* post_phase
Handles == {1, 2}
\* the durations passed to addPhase: a negative one, zero, and positive ones
\* (2 leaves a time strictly between two boundaries)
Durations == {0 - 1} \cup (0 .. MaxDur)
\* start times given to the constructor (0 is the default argument)
StartTimes == {0, 1}

\* std::size_t arithmetic is modulo 2^w (w = 64 on the usual builds).  TLC's
\* integers are 32 bits wide, so the model keeps the wrap-around with the
\* widest power of two whose arithmetic stays in range.  Every size of the
\* model is far below it, so the only wrap that occurs is 0 - 1.
SizeMod == 2 ^ 30

VARIABLES
    phase_schedule,   \* PhaseSchedule_t phase_schedule_
    time_schedule,    \* TimeSchedule_t  time_schedule_
    call,             \* the last operation called: its name, arguments and outcome
    start_time,       \* history: the constructor's argument
    durations,        \* history: the durations passed to addPhase, in order
    readers           \* the time-based query each concurrent reader is running

vars == <<phase_schedule, time_schedule, call, start_time, durations, readers>>

\* the execution contexts that query the sequence concurrently
Readers == {1, 2}

\* ------------------------------------------------------- helper operators
MinOf(S) == CHOOSE x \in S : \A y \in S : x <= y
MaxOf(S) == CHOOSE x \in S : \A y \in S : x >= y
Range(s) == {s[k] : k \in 1 .. Len(s)}

\* the record of a call: op, the arguments, the returned values (empty for
\* void), and whether the call ran into undefined behaviour (an access
\* outside a vector), in which case `out` is whatever the build produced
\* (<<>> stands for a call that did not return: a crash).
Call(op, in, out, ub) == [op |-> op, in |-> in, out |-> out, ub |-> ub]

\* ------------------------------------------------------------ vector reads
\* std::vector::operator[] does not check its index: a read outside the
\* vector is undefined behaviour, modelled as any value of the element type
\* or no return at all.
TimeInBounds(idx) == idx < Len(time_schedule)
PhaseInBounds(idx) == idx < Len(phase_schedule)

\* what a read outside a vector can yield: for a time, some stale number; for a
\* handle, null or some handle
GarbageTimes == {0, 1}
GarbagePhases == {0, 1}

\* time_schedule_[idx]: the set of values the read can yield
time_at(idx) ==
    IF TimeInBounds(idx) THEN {time_schedule[idx + 1]} ELSE GarbageTimes

\* phase_schedule_[idx]: the set of values the read can yield
phase_at(idx) ==
    IF PhaseInBounds(idx) THEN {phase_schedule[idx + 1]} ELSE GarbagePhases

\* ------------------------------------------------------------- size_t math
SizeSub(a, b) == (a - b) % SizeMod
SizeAdd(a, b) == (a + b) % SizeMod

\* ------------------------------------------------------------ pure queries
\* std::size_t getNumPhases() { return phase_schedule_.size(); }
getNumPhases == Len(phase_schedule)

\* std::size_t getNumSwitches() { return getNumPhases() - 1; }
getNumSwitches == SizeSub(getNumPhases, 1)

\* std::lower_bound(first, last, val) as the standard libraries implement it:
\* a bisection on the length of the range, comparing *middle < val.
\* `first` is a C++ (0-based) position in v.
\* mutant: the comparison *middle <= val, which makes the search an upper bound
RECURSIVE lower_bound_le(_, _, _, _)
lower_bound_le(v, val, first, len) ==
    IF len <= 0 THEN first
    ELSE LET half == len \div 2
             middle == first + half
         IN  IF v[middle + 1] <= val
             THEN lower_bound_le(v, val, middle + 1, len - half - 1)
             ELSE lower_bound_le(v, val, first, half)

\* mutant: the comparison is turned around, val < *middle
RECURSIVE lower_bound_rev(_, _, _, _)
lower_bound_rev(v, val, first, len) ==
    IF len <= 0 THEN first
    ELSE LET half == len \div 2
             middle == first + half
         IN  IF val < v[middle + 1]
             THEN lower_bound_rev(v, val, middle + 1, len - half - 1)
             ELSE lower_bound_rev(v, val, first, half)

RECURSIVE lower_bound(_, _, _, _)
lower_bound(v, val, first, len) ==
    IF len <= 0 THEN first
    ELSE LET half == len \div 2
             middle == first + half
         IN  IF v[middle + 1] < val
             THEN lower_bound(v, val, middle + 1, len - half - 1)
             ELSE lower_bound(v, val, first, half)

\* mutant: the search starts at the second boundary
getIdxFromTime_skipfirst(time) ==
    lower_bound(time_schedule, time, 1, Len(time_schedule) - 1)

\* std::size_t getIdxFromTime(Time time)
getIdxFromTime(time) == lower_bound(time_schedule, time, 0, Len(time_schedule))

\* Time getStartTimeFromIdx(std::size_t idx) { return time_schedule_[idx]; }
\* (the set of values the call can return)
getStartTimeFromIdx(idx) == time_at(idx)

\* Time getEndTimeFromIdx(std::size_t idx) { return time_schedule_[idx+1]; }
getEndTimeFromIdx(idx) == time_at(SizeAdd(idx, 1))

\* PhasePtr_t getPhasePtrFromIdx(std::size_t idx) { return phase_schedule_[idx]; }
getPhasePtrFromIdx(idx) == phase_at(idx)

\* getSwitchEventFromIdx calls getPhasePtr, a member the class does not
\* declare; the phase at an index is what getPhasePtrFromIdx returns.
getPhasePtr(idx) == getPhasePtrFromIdx(idx)

\* SwitchEvent<Phase, Time> getSwitchEventFromIdx(std::size_t idx):
\* {pre_phase, post_phase, switch_time}
getSwitchEventFromIdx(idx) ==
    {<<pre, post, t>> : pre \in getPhasePtr(idx),
                        post \in getPhasePtr(SizeAdd(idx, 1)),
                        t \in getEndTimeFromIdx(idx)}

\* PhasePtr_t getPhasePtrFromTime(Time time)
getPhasePtrFromTime(time) == getPhasePtrFromIdx(getIdxFromTime(time))

\* SwitchEvent<Phase, Time> getSwitchEventFromTime(Time time)
getSwitchEventFromTime(time) == getSwitchEventFromIdx(getIdxFromTime(time))

\* whether the call reads outside a vector
ub_getStartTimeFromIdx(idx) == ~TimeInBounds(idx)
ub_getEndTimeFromIdx(idx) == ~TimeInBounds(SizeAdd(idx, 1))
ub_getPhasePtrFromIdx(idx) == ~PhaseInBounds(idx)
ub_getSwitchEventFromIdx(idx) ==
    \/ ub_getPhasePtrFromIdx(idx)
    \/ ub_getPhasePtrFromIdx(SizeAdd(idx, 1))
    \/ ub_getEndTimeFromIdx(idx)

\* -------------------------------------------------------------- operations
\* a reader that runs no query
Idle == [pc |-> "idle", op |-> "", time |-> 0, idx |-> 0, out |-> <<>>, ub |-> FALSE]

\* PhaseSequence(const Time& start_time = 0)
Init ==
    \E s \in StartTimes :
        /\ phase_schedule = <<>>
        /\ time_schedule = <<s>>
        /\ call = Call("PhaseSequence", <<s>>, <<>>, FALSE)
        /\ start_time = s
        /\ durations = <<>>
        /\ readers = [r \in Readers |-> Idle]

\* the effect of addPhase on each vector
\* mutant: the phase is inserted at the front of the schedule
addPhase_phases_front(phase) == <<phase>> \o phase_schedule

addPhase_phases(phase) == Append(phase_schedule, phase)

\* mutant: the last boundary is moved instead of a new one being appended
addPhase_times_inplace(duration) ==
    [time_schedule EXCEPT ![Len(time_schedule)] = @ + duration]

\* mutant: the duration is stored as if it were the boundary time
addPhase_times_abs(duration) == Append(time_schedule, duration)

\* mutant: the new boundary is counted from the start of the sequence
addPhase_times_front(duration) ==
    Append(time_schedule, time_schedule[1] + duration)

addPhase_times(duration) ==
    Append(time_schedule, time_schedule[Len(time_schedule)] + duration)

\* void addPhase(const PhasePtr_t& phase, const Time& duration)
AddPhase(phase, duration) ==
    /\ Len(phase_schedule) < MaxPhases
    /\ phase_schedule' = addPhase_phases(phase)
    /\ time_schedule' = addPhase_times(duration)
    /\ call' = Call("addPhase", <<phase, duration>>, <<>>, FALSE)
    /\ durations' = Append(durations, duration)
    /\ UNCHANGED <<start_time, readers>>

\* the arguments the queries are called with: every index up to one past the
\* number of phases, every time from one before the smallest boundary to one after
\* the largest
QueryIdx == 0 .. (Len(phase_schedule) + 1)
QueryTimes == (MinOf(Range(time_schedule)) - 1) .. (MaxOf(Range(time_schedule)) + 1)

\* time_schedule_ in non-decreasing order
SortedTimes ==
    CHOOSE s \in [1 .. Len(time_schedule) -> Range(time_schedule)] :
        /\ \A k \in 1 .. (Len(s) - 1) : s[k] <= s[k + 1]
        /\ \A x \in Range(time_schedule) :
              Cardinality({k \in 1 .. Len(s) : s[k] = x})
                  = Cardinality({k \in 1 .. Len(s) : time_schedule[k] = x})

\* mutant: the query sorts time_schedule_ before it searches or reads it
Query_sorting(c) ==
    /\ call' = c
    /\ time_schedule' = SortedTimes
    /\ UNCHANGED <<phase_schedule, start_time, durations, readers>>

\* a query leaves the object alone and records its outcome
Query(c) ==
    /\ call' = c
    /\ UNCHANGED <<phase_schedule, time_schedule, start_time, durations, readers>>

GetNumPhases == Query(Call("getNumPhases", <<>>, <<getNumPhases>>, FALSE))

GetNumSwitches == Query(Call("getNumSwitches", <<>>, <<getNumSwitches>>, FALSE))

GetIdxFromTime(time) ==
    Query(Call("getIdxFromTime", <<time>>, <<getIdxFromTime(time)>>, FALSE))

\* the outcomes of a call that returns one of `vals`, or that need not return
\* at all when it ran into undefined behaviour
Outcomes(vals, ub) == {<<v>> : v \in vals} \cup (IF ub THEN {<<>>} ELSE {})
EventOutcomes(events, ub) == events \cup (IF ub THEN {<<>>} ELSE {})

GetStartTimeFromIdx(idx) ==
    \E out \in Outcomes(getStartTimeFromIdx(idx), ub_getStartTimeFromIdx(idx)) :
        Query(Call("getStartTimeFromIdx", <<idx>>, out, ub_getStartTimeFromIdx(idx)))

GetEndTimeFromIdx(idx) ==
    \E out \in Outcomes(getEndTimeFromIdx(idx), ub_getEndTimeFromIdx(idx)) :
        Query(Call("getEndTimeFromIdx", <<idx>>, out, ub_getEndTimeFromIdx(idx)))

GetPhasePtrFromIdx(idx) ==
    \E out \in Outcomes(getPhasePtrFromIdx(idx), ub_getPhasePtrFromIdx(idx)) :
        Query(Call("getPhasePtrFromIdx", <<idx>>, out, ub_getPhasePtrFromIdx(idx)))

GetPhasePtrFromTime(time) ==
    LET ub == ub_getPhasePtrFromIdx(getIdxFromTime(time))
    IN  \E out \in Outcomes(getPhasePtrFromTime(time), ub) :
            Query(Call("getPhasePtrFromTime", <<time>>, out, ub))

GetSwitchEventFromIdx(idx) ==
    \E out \in EventOutcomes(getSwitchEventFromIdx(idx), ub_getSwitchEventFromIdx(idx)) :
        Query(Call("getSwitchEventFromIdx", <<idx>>, out, ub_getSwitchEventFromIdx(idx)))

GetSwitchEventFromTime(time) ==
    LET ub == ub_getSwitchEventFromIdx(getIdxFromTime(time))
    IN  \E out \in EventOutcomes(getSwitchEventFromTime(time), ub) :
            Query(Call("getSwitchEventFromTime", <<time>>, out, ub))

\* --------------------------------------------------------- concurrent readers
\* A time-based query is two member calls: getIdxFromTime(time), whose result
\* is passed by value, then getPhasePtrFromIdx / getSwitchEventFromIdx.  Each
\* reader takes them as separate steps, interleaved with the other readers'.
ReaderOps == {"getPhasePtrFromTime", "getSwitchEventFromTime"}

\* the times the readers ask about: the boundary times of the sequence
ReaderTimes == Range(time_schedule)

ReaderStep(r, rec) ==
    /\ readers' = [readers EXCEPT ![r] = rec]
    /\ UNCHANGED <<phase_schedule, time_schedule, call, start_time, durations>>

\* reader r enters getPhasePtrFromTime(time) or getSwitchEventFromTime(time)
ReaderCall(r, op, time) ==
    /\ readers[r].pc = "idle"
    /\ ReaderStep(r, [Idle EXCEPT !.pc = "called", !.op = op, !.time = time])

\* ... calls getIdxFromTime(time)
ReaderLookup(r) ==
    /\ readers[r].pc = "called"
    /\ ReaderStep(r, [readers[r] EXCEPT !.pc = "looked",
                                        !.idx = getIdxFromTime(readers[r].time)])

\* mutant: the index is kept in one place that all readers share
idx_of_shared(r) ==
    readers[MinOf({q \in Readers : readers[q].pc = "looked"})].idx

\* the index the reader's second call is given: its own copy
idx_of(r) == readers[r].idx

\* ... calls getPhasePtrFromIdx(idx) or getSwitchEventFromIdx(idx) and holds
\* what it returned
ReaderRead(r) ==
    /\ readers[r].pc = "looked"
    /\ \/ /\ readers[r].op = "getPhasePtrFromTime"
          /\ \E out \in Outcomes(getPhasePtrFromIdx(idx_of(r)),
                                 ub_getPhasePtrFromIdx(idx_of(r))) :
                ReaderStep(r, [readers[r] EXCEPT
                    !.pc = "done", !.out = out,
                    !.ub = ub_getPhasePtrFromIdx(idx_of(r))])
       \/ /\ readers[r].op = "getSwitchEventFromTime"
          /\ \E out \in EventOutcomes(getSwitchEventFromIdx(idx_of(r)),
                                      ub_getSwitchEventFromIdx(idx_of(r))) :
                ReaderStep(r, [readers[r] EXCEPT
                    !.pc = "done", !.out = out,
                    !.ub = ub_getSwitchEventFromIdx(idx_of(r))])

\* ... and the caller takes the result
ReaderReturn(r) ==
    /\ readers[r].pc = "done"
    /\ ReaderStep(r, Idle)

\* the caller's side of the contract: addPhase is not called while a query is
\* in flight
NoQueryInFlight == \A r \in Readers : readers[r].pc = "idle"

\* ---------------------------------------------------------- specifications
Build == \E p \in Handles, d \in Durations : AddPhase(p, d)

\* every operation of the class
Next ==
    \/ Build
    \/ GetNumPhases
    \/ GetNumSwitches
    \/ \E i \in QueryIdx : GetStartTimeFromIdx(i)
    \/ \E i \in QueryIdx : GetEndTimeFromIdx(i)
    \/ \E i \in QueryIdx : GetPhasePtrFromIdx(i)
    \/ \E t \in QueryTimes : GetPhasePtrFromTime(t)
    \/ \E i \in QueryIdx : GetSwitchEventFromIdx(i)
    \/ \E t \in QueryTimes : GetSwitchEventFromTime(t)
    \/ \E t \in QueryTimes : GetIdxFromTime(t)

Spec == Init /\ [][Next]_vars

\* construction and the size queries
NextBuild ==
    \/ Build
    \/ GetNumPhases
    \/ GetNumSwitches

SpecBuild == Init /\ [][NextBuild]_vars

\* construction and the time-to-index lookup
NextLookup ==
    \/ Build
    \/ \E t \in QueryTimes : GetIdxFromTime(t)

SpecLookup == Init /\ [][NextLookup]_vars

\* construction and the switch events by index
NextSwitch ==
    \/ Build
    \/ \E i \in QueryIdx : GetSwitchEventFromIdx(i)

SpecSwitch == Init /\ [][NextSwitch]_vars

\* construction and the time-based queries
NextTime ==
    \/ Build
    \/ \E t \in QueryTimes : GetIdxFromTime(t)
    \/ \E t \in QueryTimes : GetPhasePtrFromTime(t)
    \/ \E t \in QueryTimes : GetSwitchEventFromTime(t)

SpecTime == Init /\ [][NextTime]_vars

\* construction from a short list of durations, and every query
BuildShort == \E p \in Handles, d \in {0 - 1, 1} : AddPhase(p, d)

NextQueries ==
    \/ BuildShort
    \/ GetNumPhases
    \/ GetNumSwitches
    \/ \E i \in QueryIdx : GetStartTimeFromIdx(i)
    \/ \E i \in QueryIdx : GetEndTimeFromIdx(i)
    \/ \E i \in QueryIdx : GetPhasePtrFromIdx(i)
    \/ \E t \in QueryTimes : GetPhasePtrFromTime(t)
    \/ \E i \in QueryIdx : GetSwitchEventFromIdx(i)
    \/ \E t \in QueryTimes : GetSwitchEventFromTime(t)
    \/ \E t \in QueryTimes : GetIdxFromTime(t)

SpecQueries == Init /\ [][NextQueries]_vars

\* construction while no query is in flight, and readers running the
\* time-based queries concurrently
NextReaders ==
    \/ NoQueryInFlight /\ BuildShort
    \/ \E r \in Readers, op \in ReaderOps, t \in ReaderTimes : ReaderCall(r, op, t)
    \/ \E r \in Readers : ReaderLookup(r)
    \/ \E r \in Readers : ReaderRead(r)
    \/ \E r \in Readers : ReaderReturn(r)

SpecReaders == Init /\ [][NextReaders]_vars

\* construction and the index-based queries
NextIndex ==
    \/ Build
    \/ \E i \in QueryIdx : GetStartTimeFromIdx(i)
    \/ \E i \in QueryIdx : GetEndTimeFromIdx(i)
    \/ \E i \in QueryIdx : GetPhasePtrFromIdx(i)
    \/ \E i \in QueryIdx : GetSwitchEventFromIdx(i)

SpecIndex == Init /\ [][NextIndex]_vars

\* ------------------------------------------------------------------ claims
\* every duration passed to addPhase so far was non-negative
NonNegativeDurations == \A k \in 1 .. Len(durations) : durations[k] >= 0

\* the C++ element time_schedule_[k]
T(k) == time_schedule[k + 1]

\* time_schedule is non-decreasing
NonDecreasingTimes == \A k \in 0 .. (Len(time_schedule) - 2) : T(k) <= T(k + 1)

\* C1: in a sequence built with non-negative durations, for every phase index
\* i < getNumPhases() and every time t with getStartTimeFromIdx(i) <= t <
\* getEndTimeFromIdx(i), getIdxFromTime(t) returns i.
C1_IndexTimeConsistency ==
    (call.op = "getIdxFromTime" /\ NonNegativeDurations) =>
        \A i \in 0 .. (getNumPhases - 1) :
            (/\ \A s \in getStartTimeFromIdx(i) : s <= call.in[1]
             /\ \A e \in getEndTimeFromIdx(i) : call.in[1] < e)
            => call.out = <<i>>

\* C2: in every reachable state the number of boundary times is the number of
\* phases plus one.
C2_SizeInvariant == Len(time_schedule) = Len(phase_schedule) + 1

C2_Witness ==
    /\ call.op = "addPhase"
    /\ Len(phase_schedule) >= 2
    /\ Len(time_schedule) = Len(phase_schedule) + 1

\* C3: after any sequence of addPhase calls time_schedule is non-decreasing.
C3_MonotoneTimeline ==
    \A i \in 1 .. (Len(time_schedule) - 1) : time_schedule[i] <= time_schedule[i + 1]

\* C4: addPhase with a negative duration is rejected: it leaves phase_schedule
\* and time_schedule unchanged.
C4_NegativeDurationRejected ==
    [][(call'.op = "addPhase" /\ call'.in[2] < 0)
        => UNCHANGED <<phase_schedule, time_schedule>>]_vars

C6_ZeroDurationLater ==
    (call.op = "getIdxFromTime" /\ NonNegativeDurations) =>
        \A k \in 1 .. (getNumPhases - 1) :
            (durations[k + 1] = 0 /\ call.in[1] = T(k))
            => call.out = <<MaxOf({i \in 0 .. (getNumPhases - 1) : T(i) = call.in[1]})>>

\* C7: for every i < getNumSwitches(), getSwitchEventFromIdx(i) returns
\* pre_phase = getPhasePtrFromIdx(i), post_phase = getPhasePtrFromIdx(i+1) and
\* switch_time = getEndTimeFromIdx(i) = getStartTimeFromIdx(i+1).
C7_SwitchEventDerivation ==
    (call.op = "getSwitchEventFromIdx" /\ call.in[1] < getNumSwitches) =>
        /\ ~call.ub
        /\ getPhasePtrFromIdx(call.in[1]) = {call.out[1]}
        /\ getPhasePtrFromIdx(call.in[1] + 1) = {call.out[2]}
        /\ getEndTimeFromIdx(call.in[1]) = {call.out[3]}
        /\ getStartTimeFromIdx(call.in[1] + 1) = {call.out[3]}

\* C8: addPhase(p, d) with d >= 0 on a sequence of n phases leaves
\* getNumPhases() = n + 1, getStartTimeFromIdx(n) = the previous last boundary,
\* getEndTimeFromIdx(n) = that boundary plus d, and getPhasePtrFromIdx(n) = p.
C8_AppendCorrectness ==
    [][(call'.op = "addPhase" /\ call'.in[2] >= 0) =>
        \A n \in {getNumPhases}, last \in {time_schedule[Len(time_schedule)]} :
            /\ getNumPhases' = n + 1
            /\ getStartTimeFromIdx(n)' = {last}
            /\ getEndTimeFromIdx(n)' = {last + call'.in[2]}
            /\ getPhasePtrFromIdx(n)' = {call'.in[1]}]_vars

C8_Witness ==
    /\ call.op = "addPhase"
    /\ NonNegativeDurations
    /\ call.in[2] > 0
    /\ getNumPhases >= 2
    /\ T(getNumPhases - 1) # T(0)
    /\ getPhasePtrFromIdx(getNumPhases - 1) = {call.in[1]}

\* C9: getNumSwitches() returns max(0, getNumPhases() - 1); on an empty sequence
\* it returns 0.
C9_NumSwitchesClamped ==
    call.op = "getNumSwitches" =>
        call.out = <<IF getNumPhases = 0 THEN 0 ELSE getNumPhases - 1>>

\* C10: for a time before time_schedule[0] or at or after the last boundary,
\* each time-based query ends in an explicit error (it returns no value, and
\* not by undefined behaviour); it returns no phase index and reads outside no
\* vector.
C10_OutsideHorizonRejected ==
    (/\ call.op \in {"getIdxFromTime", "getPhasePtrFromTime", "getSwitchEventFromTime"}
     /\ (call.in[1] < T(0) \/ call.in[1] >= T(Len(time_schedule) - 1)))
    => (~call.ub /\ call.out = <<>>)

\* C11: getStartTimeFromIdx(i), getEndTimeFromIdx(i) and getPhasePtrFromIdx(i)
\* with i >= getNumPhases(), and getSwitchEventFromIdx(i) with
\* i >= getNumSwitches(), end in an explicit error: they return no value (and
\* not by undefined behaviour).
C11_OutOfRangeRejected ==
    (\/ /\ call.op \in {"getStartTimeFromIdx", "getEndTimeFromIdx", "getPhasePtrFromIdx"}
        /\ call.in[1] >= getNumPhases
     \/ /\ call.op = "getSwitchEventFromIdx"
        /\ call.in[1] >= getNumSwitches)
    => (~call.ub /\ call.out = <<>>)

\* C12: time_schedule[0] is the constructor's start_time in every state, and
\* every step (every addPhase call in particular) keeps the number of phases
\* from decreasing and leaves getStartTimeFromIdx(i), getEndTimeFromIdx(i) and
\* getPhasePtrFromIdx(i) as they were for every index i valid before it.
C12_AppendOnly ==
    /\ [](T(0) = start_time)
    /\ [][/\ getNumPhases' >= getNumPhases
          /\ \A i \in 0 .. (getNumPhases - 1) :
                /\ getStartTimeFromIdx(i)' = getStartTimeFromIdx(i)
                /\ getEndTimeFromIdx(i)' = getEndTimeFromIdx(i)
                /\ getPhasePtrFromIdx(i)' = getPhasePtrFromIdx(i)]_vars

C12_Witness ==
    /\ call.op = "addPhase"
    /\ getNumPhases = 3
    /\ phase_schedule[1] # phase_schedule[3]
    /\ T(0) = start_time
    /\ T(1) # T(0)

\* the read queries of the class
QueryOps ==
    {"getNumPhases", "getNumSwitches", "getStartTimeFromIdx", "getEndTimeFromIdx",
     "getPhasePtrFromIdx", "getPhasePtrFromTime", "getSwitchEventFromIdx",
     "getSwitchEventFromTime", "getIdxFromTime"}

\* C13: every read query leaves phase_schedule and time_schedule unchanged,
\* whether it returns a value or runs outside a vector.
C13_QueryPurity ==
    [][call'.op \in QueryOps => UNCHANGED <<phase_schedule, time_schedule>>]_vars

\* a query that failed (it read outside a vector) on a sequence whose boundaries
\* are out of order
C13_Witness ==
    /\ call.op = "getSwitchEventFromTime"
    /\ call.ub
    /\ getNumPhases = 3
    /\ ~NonDecreasingTimes

\* what a time-based query returns when it runs alone on the sequence
AloneOutcomes(op, time) ==
    IF op = "getPhasePtrFromTime"
    THEN Outcomes(getPhasePtrFromTime(time),
                  ub_getPhasePtrFromIdx(getIdxFromTime(time)))
    ELSE EventOutcomes(getSwitchEventFromTime(time),
                       ub_getSwitchEventFromIdx(getIdxFromTime(time)))

\* C14: with no addPhase while a query is in flight, every query a reader
\* completes, under any interleaving with the other readers' steps, returns a
\* result the same query returns when run alone on the same sequence.
C14_ConcurrentReaders ==
    \A r \in Readers :
        readers[r].pc = "done" =>
            readers[r].out \in AloneOutcomes(readers[r].op, readers[r].time)

\* both readers have completed different queries whose steps overlapped, each
\* with a defined result
C14_Witness ==
    /\ getNumPhases = 3
    /\ NonNegativeDurations
    /\ readers[1].pc = "done" /\ readers[2].pc = "done"
    /\ readers[1].op # readers[2].op
    /\ readers[1].idx # readers[2].idx
    /\ ~readers[1].ub /\ ~readers[2].ub

\* C15: for a time t inside the horizon whose active phase i
\* (time_schedule[i] <= t < time_schedule[i+1]) is not the last one,
\* getSwitchEventFromTime(t) returns {phase i, phase i+1, time_schedule[i+1]}.
C15_NextSwitchEvent ==
    (call.op = "getSwitchEventFromTime" /\ NonNegativeDurations) =>
        \A i \in 0 .. (getNumPhases - 2) :
            (T(i) <= call.in[1] /\ call.in[1] < T(i + 1)) =>
                /\ ~call.ub
                /\ call.out = <<phase_schedule[i + 1], phase_schedule[i + 2], T(i + 1)>>

\* C16: for a time t inside the horizon, getPhasePtrFromTime(t) is what
\* getPhasePtrFromIdx(getIdxFromTime(t)) returns, and it is the handle given to
\* the addPhase call whose interval [start, end) contains t.
C16_ActivePhase ==
    (call.op = "getPhasePtrFromTime" /\ NonNegativeDurations) =>
        \A i \in 0 .. (getNumPhases - 1) :
            (T(i) <= call.in[1] /\ call.in[1] < T(i + 1)) =>
                /\ ~call.ub
                /\ call.out \in Outcomes(getPhasePtrFromIdx(getIdxFromTime(call.in[1])), FALSE)
                /\ call.out = <<phase_schedule[i + 1]>>

\* the smallest position k with time_schedule[k] >= t, or the number of
\* boundaries when there is none
FirstAtLeast(t) ==
    LET ks == {k \in 0 .. (Len(time_schedule) - 1) : T(k) >= t}
    IN  IF ks = {} THEN Len(time_schedule) ELSE MinOf(ks)

RECURSIVE SumTo(_, _)
SumTo(d, k) == IF k = 0 THEN 0 ELSE SumTo(d, k - 1) + d[k]

\* C18: after new(start) and addPhase calls with durations d_0 .. d_{n-1},
\* time_schedule[k] = start + d_0 + ... + d_{k-1} for every k in 0..n; each
\* phase ends where the next one starts, and the horizon is as long as the sum
\* of the durations.
C18_CumulativeSums ==
    /\ Len(time_schedule) = Len(durations) + 1
    /\ \A k \in 0 .. Len(durations) : T(k) = start_time + SumTo(durations, k)
    /\ \A i \in 0 .. (getNumPhases - 2) :
          getEndTimeFromIdx(i) = getStartTimeFromIdx(i + 1)
    /\ T(Len(time_schedule) - 1) - T(0) = SumTo(durations, Len(durations))

C18_Witness ==
    /\ call.op = "addPhase"
    /\ getNumPhases = 3
    /\ start_time # 0
    /\ durations = <<2, 0, 1>>
    /\ time_schedule = <<start_time, start_time + 2, start_time + 2, start_time + 3>>

\* C19: on a sequence built with non-negative durations getIdxFromTime is
\* monotone (t1 <= t2 implies getIdxFromTime(t1) <= getIdxFromTime(t2)) and
\* every result lies in 0 .. getNumPhases() + 1.
C19_LookupMonotoneBounded ==
    (call.op = "getIdxFromTime" /\ NonNegativeDurations) =>
        /\ call.out[1] \in 0 .. (getNumPhases + 1)
        /\ \A t1 \in QueryTimes :
              /\ t1 <= call.in[1] => getIdxFromTime(t1) <= call.out[1]
              /\ t1 >= call.in[1] => getIdxFromTime(t1) >= call.out[1]

\* a lookup in the middle of a three-phase sequence, with smaller results below
\* it and larger ones above
C19_Witness ==
    /\ call.op = "getIdxFromTime"
    /\ NonNegativeDurations
    /\ getNumPhases = 3
    /\ call.out[1] = 2
    /\ \E t1, t2 \in QueryTimes :
          /\ t1 < call.in[1] /\ call.in[1] < t2
          /\ getIdxFromTime(t1) < 2
          /\ getIdxFromTime(t2) = getNumPhases + 1
====
